---- MODULE Spec2Model ----
(***************************************************************************)
(* Model of src/scraper.py: the Scraper (get_product_links,                *)
(* extract_product_info with its retry/backoff loop) and the crawl driver  *)
(* main (argument parsing, page loop, product loop, output stream).        *)
(*                                                                         *)
(* Python's None / optional values are modelled as sequences of length at  *)
(* most one: None is << >> and a present value x is << x >>.  Python dicts *)
(* and JSON objects are functions from key strings to values.              *)
(***************************************************************************)
EXTENDS Integers, Sequences, FiniteSets, TLC

(* ---------------- bounds of the model (not program constants) ---------- *)
\* longest link sequence one search page may yield
MaxLinks == 2
\* total number of links the remote site serves during one run
MaxServed == 6

(* ---------------- optional values ---------------------------------------*)
None == << >>
Some(x) == << x >>

(* ---------------- inputs of the invocation surface -----------------------*)
\* the command lines tried: no option, both options, only --num_pages
CommandLines ==
    { [query |-> None, num_pages |-> None],
      [query |-> Some("monitor"), num_pages |-> Some(1)],
      [query |-> None, num_pages |-> Some(7)] }

\* main, line 122: query = args.query if args.query else "laptop"
ConfiguredQuery(a) == IF a # None /\ a[1] # "" THEN a[1] ELSE "laptop"
\* main, line 123: num_pages = args.num_pages if args.num_pages else 5
ConfiguredNumPages(a) == IF a # None /\ a[1] # 0 THEN a[1] ELSE 5

(* ---------------- the remote site: detail-page payloads ------------------*)
ProductA ==
    ("@type" :> "Product") @@ ("name" :> "n1") @@ ("brand" :> ("name" :> "b1"))
    @@ ("aggregateRating" :> (("ratingValue" :> 4) @@ ("reviewCount" :> 10)))
    @@ ("offers" :> (("price" :> 500) @@ ("priceCurrency" :> "INR")))
\* a Product carrying keys the record does not use
ProductB ==
    ("@type" :> "Product") @@ ("name" :> "n2") @@ ("sku" :> "s2")
    @@ ("brand" :> (("@type" :> "Brand") @@ ("name" :> "b2")))
    @@ ("aggregateRating" :> (("ratingValue" :> 3) @@ ("reviewCount" :> 7)))
    @@ ("offers" :> (("price" :> 900) @@ ("priceCurrency" :> "USD")))
\* a Product without the offers field
ProductNoOffers ==
    ("@type" :> "Product") @@ ("name" :> "n1") @@ ("brand" :> ("name" :> "b1"))
    @@ ("aggregateRating" :> (("ratingValue" :> 4) @@ ("reviewCount" :> 10)))
\* a Product whose brand has no name
ProductNoBrandName ==
    ("@type" :> "Product") @@ ("name" :> "n1") @@ ("brand" :> ("@type" :> "Brand"))
    @@ ("aggregateRating" :> (("ratingValue" :> 4) @@ ("reviewCount" :> 10)))
    @@ ("offers" :> (("price" :> 500) @@ ("priceCurrency" :> "INR")))
Breadcrumb == ("@type" :> "BreadcrumbList")
Organization == ("@type" :> "Organization") @@ ("name" :> "n1")
NoType == ("name" :> "n1")

\* the JSON arrays a jsonLD script block may hold
JsonArrays ==
    { << >>, <<ProductA>>, <<ProductB, Breadcrumb>>, <<Breadcrumb, ProductA>>,
      <<Organization>>, <<NoType>>, <<ProductNoOffers>>, <<ProductNoBrandName>> }

\* bodies of a successful response: script block present or not, its text
\* parseable as JSON or not, and the parsed value
Bodies ==
    { [script |-> FALSE, parseable |-> FALSE, json |-> << >>],
      [script |-> TRUE, parseable |-> FALSE, json |-> << >>] }
    \cup { [script |-> TRUE, parseable |-> TRUE, json |-> a] : a \in JsonArrays }

(* ---------------- Scraper.extract_product_info: pure parts --------------*)
\* a budget of six attempts
max_retries_six == 5 + 1

\* line 60
max_retries == 5
\* line 61
initial_backoff_factor == 3

\* only proxy errors are caught
IsTransient_proxy_only(e) == e = "ProxyError"

\* every exception class is caught
IsTransient_any(e) == TRUE

\* line 85: the exception classes the retry loop catches
IsTransient(e) == e \in {"ProxyError", "HTTPError"}

\* linear instead of doubling backoff
NextBackoff_linear(b) == b + 3

\* line 89: backoff_factor *= 2
NextBackoff(b) == b * 2

\* the budget check off by one
AttemptsRemain_early(a) == a < max_retries - 2

\* line 86: attempts remain
AttemptsRemain(a) == a < max_retries - 1

\* outcomes of requests.get followed by raise_for_status (lines 66-67):
\* a raised exception class, or "OK"
GetOutcomes == {"ProxyError", "HTTPError", "ConnectionError", "OK"}

Return(v) == [exc |-> None, value |-> v]
Raise(e) == [exc |-> Some(e), value |-> None]

\* the keys lines 75-80 read are all present
RequiredFieldsPresent(data) ==
    /\ {"name", "brand", "aggregateRating", "offers"} \subseteq DOMAIN data
    /\ "name" \in DOMAIN data["brand"]
    /\ {"ratingValue", "reviewCount"} \subseteq DOMAIN data["aggregateRating"]
    /\ {"price", "priceCurrency"} \subseteq DOMAIN data["offers"]

\* rating and review count exchanged
BuildProductInfo_swapped(data) ==
    ("product_name" :> data["name"])
    @@ ("brand_name" :> data["brand"]["name"])
    @@ ("aggregate_rating" :> data["aggregateRating"]["reviewCount"])
    @@ ("review_count" :> data["aggregateRating"]["ratingValue"])
    @@ ("price" :> data["offers"]["price"])
    @@ ("price_currency" :> data["offers"]["priceCurrency"])

\* lines 74-81: the dict literal
BuildProductInfo(data) ==
    ("product_name" :> data["name"])
    @@ ("brand_name" :> data["brand"]["name"])
    @@ ("aggregate_rating" :> data["aggregateRating"]["ratingValue"])
    @@ ("review_count" :> data["aggregateRating"]["reviewCount"])
    @@ ("price" :> data["offers"]["price"])
    @@ ("price_currency" :> data["offers"]["priceCurrency"])

\* any declared type is taken for a product
IsProduct_any_type(data) == data["@type"] # ""

\* line 73: data["@type"] == "Product"
IsProduct(data) == data["@type"] = "Product"

\* lines 68-83: what the try body does with a successful response
ParseBody(body) ==
    IF ~body.script THEN Raise("AttributeError")
    ELSE IF ~body.parseable THEN Raise("JSONDecodeError")
    ELSE IF Len(body.json) = 0 THEN Raise("IndexError")
    ELSE LET data == body.json[1] IN
         IF "@type" \notin DOMAIN data THEN Raise("KeyError")
         ELSE IF IsProduct(data)
              THEN IF RequiredFieldsPresent(data)
                   THEN Return(Some(BuildProductInfo(data)))
                   ELSE Raise("KeyError")
              ELSE Return(None)

(* ---------------- main: pure parts ---------------------------------------*)
\* line 140: the query main hands to get_product_links
SearchQuery(q) == "laptop"

\* the emptiness test is missing
LoopExit_no_empty_test(links, page, n) == page > 5

\* the page count is taken from the command line
LoopExit_configured(links, page, n) == links = << >> \/ page > n

\* line 142: not product_links or page_number > 5
LoopExit(links, page, n) == links = << >> \/ page > 5

\* nothing is ever written
Truthy_never(info) == FALSE

\* line 151: truthiness of product_info (None and the empty dict are falsy)
Truthy(info) == info # None /\ DOMAIN info[1] # {}

\* insertion order of the keys of the dict built at lines 74-81
ProductInfoKeys ==
    << "product_name", "brand_name", "aggregate_rating", "review_count",
       "price", "price_currency" >>

\* json.dumps: the members of the object, in insertion order
json_dumps(d) == [k \in 1..Len(ProductInfoKeys) |->
                     << ProductInfoKeys[k], d[ProductInfoKeys[k]] >>]

\* line 152: the text handed to f.write
Line(d) == Append(json_dumps(d), "\n")

\* lines 42-43: the link sequences a search page may yield: the first n
\* anchors of a listing, for n up to MaxLinks
Link(k) == "/p" \o ToString(k)
PageLinks == { [k \in 1..n |-> Link(k)] : n \in 0..MaxLinks }
\* exceptions get_product_links lets through (lines 40, 43)
LinkErrors == {"ProxyError", "ConnectionError", "KeyError"}

(* ---------------- state ---------------------------------------------------*)
VARIABLES
    args,            \* parsed command line: [query, num_pages], each optional
    query,           \* main, line 122
    num_pages,       \* main, line 123
    pc,              \* position of main: "fetch", "request", "write", "done", "raised"
    page_number,     \* main, line 137
    product_links,   \* main, line 140
    i,               \* main, line 146: index of the product loop (from 0)
    attempt,         \* extract_product_info, line 63
    backoff_factor,  \* extract_product_info, line 61
    product_info,    \* main, line 150: value returned by extract_product_info
    out,             \* lines written to the output stream f
    exc,             \* exception that left main, if any
    \* history of the run
    fetched,         \* the (query, page) of every get_product_links call, in order
    extracted,       \* the (page, index) of every extract_product_info call, in order
    returned,        \* the records extract_product_info returned, in order
    served,          \* number of links the site served so far
    exhausted,       \* number of calls that used up their attempts and returned None
    \* history of the current extract_product_info call
    nreq,            \* GET requests issued
    sleeps,          \* durations of the sleeps, in order
    lastOutcome,     \* outcome of the latest GET: a member of GetOutcomes, or "none"
    lastBody         \* body of the latest successful GET, if any

mainVars == << args, query, num_pages, page_number, product_links, i, out >>
callVars == << attempt, backoff_factor, nreq, sleeps, lastOutcome, lastBody >>
histVars == << fetched, extracted, returned, served >>
vars == << args, query, num_pages, pc, page_number, product_links, i, attempt,
           backoff_factor, product_info, out, exc, fetched, extracted, returned,
           served, exhausted, nreq, sleeps, lastOutcome, lastBody >>

\* main, lines 121-137: arguments parsed, output file opened (truncated)
Init ==
    /\ args \in CommandLines
    /\ query = ConfiguredQuery(args.query)
    /\ num_pages = ConfiguredNumPages(args.num_pages)
    /\ pc = "fetch"
    /\ page_number = 1
    /\ product_links = << >>
    /\ i = 0
    /\ attempt = 0
    /\ backoff_factor = initial_backoff_factor
    /\ product_info = None
    /\ out = << >>
    /\ exc = None
    /\ fetched = << >>
    /\ extracted = << >>
    /\ returned = << >>
    /\ served = 0
    /\ exhausted = 0
    /\ nreq = 0
    /\ sleeps = << >>
    /\ lastOutcome = "none"
    /\ lastBody = None

\* attempt and backoff_factor live on across calls
EnterExtract_shared_retry_state(p, idx) ==
    /\ pc' = "request"
    /\ i' = idx
    /\ extracted' = Append(extracted, << p, idx >>)
    /\ nreq' = 0
    /\ sleeps' = << >>
    /\ lastOutcome' = "none"
    /\ lastBody' = None
    /\ UNCHANGED << attempt, backoff_factor >>

\* line 150 entering extract_product_info, lines 60-63: the call for the link
\* at index idx of page p starts
EnterExtract(p, idx) ==
    /\ pc' = "request"
    /\ i' = idx
    /\ attempt' = 0
    /\ backoff_factor' = initial_backoff_factor
    /\ extracted' = Append(extracted, << p, idx >>)
    /\ nreq' = 0
    /\ sleeps' = << >>
    /\ lastOutcome' = "none"
    /\ lastBody' = None

\* line 83 or 92 seen from main once the product loop is over: the frame of
\* the last call is gone, and so is the history kept of it
LeaveExtract ==
    /\ attempt' = 0
    /\ backoff_factor' = initial_backoff_factor
    /\ nreq' = 0
    /\ sleeps' = << >>
    /\ lastOutcome' = "none"
    /\ lastBody' = None

\* two pages further instead of one
NextPage_skip(p) == p + 2

\* line 154: page_number += 1
NextPage(p) == p + 1

\* lines 139-146: get_product_links returns links; the loop exits or the
\* product loop starts
GetProductLinks(links) ==
    /\ pc = "fetch"
    /\ served + Len(links) <= MaxServed
    /\ fetched' = Append(fetched, [query |-> SearchQuery(query), page |-> page_number])
    /\ served' = served + Len(links)
    /\ product_links' = links
    /\ IF LoopExit(links, page_number, num_pages)
       THEN /\ pc' = "done"
            /\ UNCHANGED << i, callVars, extracted >>
       ELSE EnterExtract(page_number, 0)
    /\ UNCHANGED << args, query, num_pages, page_number, product_info, out, exc,
                    returned, exhausted >>

\* the error is caught and the same page is requested again
GetProductLinksRaises_retry(e) ==
    /\ pc = "fetch"
    /\ Len(fetched) < 8
    /\ fetched' = Append(fetched, [query |-> SearchQuery(query), page |-> page_number])
    /\ UNCHANGED << mainVars, callVars, pc, exc, product_info, extracted, returned,
                    served, exhausted >>

\* lines 139-140: get_product_links raises; nothing in main catches it
GetProductLinksRaises(e) ==
    /\ pc = "fetch"
    /\ fetched' = Append(fetched, [query |-> SearchQuery(query), page |-> page_number])
    /\ pc' = "raised"
    /\ exc' = Some(e)
    /\ UNCHANGED << mainVars, callVars, product_info, extracted, returned, served,
                    exhausted >>

\* lines 85-92 and the loop header, line 63: the except branch; falling off
\* the end of the for loop returns None
ExceptBranch ==
    IF AttemptsRemain(attempt)
    THEN /\ sleeps' = Append(sleeps, backoff_factor)
         /\ backoff_factor' = NextBackoff(backoff_factor)
         /\ IF attempt + 1 < max_retries
            THEN /\ attempt' = attempt + 1
                 /\ UNCHANGED << pc, product_info, exhausted >>
            ELSE /\ product_info' = None
                 /\ pc' = "write"
                 /\ exhausted' = exhausted + 1
                 /\ UNCHANGED attempt
    ELSE /\ product_info' = None
         /\ pc' = "write"
         /\ exhausted' = exhausted + 1
         /\ UNCHANGED << sleeps, backoff_factor, attempt >>

\* lines 66-67 and 85-92: the GET fails with a caught exception class
RequestTransient(e) ==
    /\ pc = "request"
    /\ e \in GetOutcomes \ {"OK"}
    /\ IsTransient(e)
    /\ nreq' = nreq + 1
    /\ lastOutcome' = e
    /\ lastBody' = None
    /\ ExceptBranch
    /\ UNCHANGED << mainVars, histVars, exc >>

\* lines 66-67: the GET fails with an exception class the loop does not catch
RequestRaises(e) ==
    /\ pc = "request"
    /\ e \in GetOutcomes \ {"OK"}
    /\ ~IsTransient(e)
    /\ nreq' = nreq + 1
    /\ lastOutcome' = e
    /\ lastBody' = None
    /\ pc' = "raised"
    /\ exc' = Some(e)
    /\ UNCHANGED << mainVars, histVars, attempt, backoff_factor, sleeps, product_info,
                    exhausted >>

\* lines 66-83 (and 85-92 when the parse raises a caught class): the GET succeeds
RequestOk(body) ==
    /\ pc = "request"
    /\ nreq' = nreq + 1
    /\ lastOutcome' = "OK"
    /\ lastBody' = Some(body)
    /\ LET r == ParseBody(body) IN
       IF r.exc = None
       THEN /\ product_info' = r.value
            /\ returned' = IF r.value = None THEN returned
                           ELSE Append(returned, r.value[1])
            /\ pc' = "write"
            /\ UNCHANGED << exc, sleeps, backoff_factor, attempt, exhausted >>
       ELSE IF IsTransient(r.exc[1])
       THEN /\ ExceptBranch
            /\ UNCHANGED << exc, returned >>
       ELSE /\ pc' = "raised"
            /\ exc' = r.exc
            /\ UNCHANGED << product_info, returned, sleeps, backoff_factor, attempt,
                            exhausted >>
    /\ UNCHANGED << mainVars, fetched, extracted, served >>

\* the driver gives up the crawl when a link yields no record
WriteAndAdvance_break_on_absent ==
    /\ pc = "write"
    /\ out' = IF Truthy(product_info) THEN Append(out, Line(product_info[1])) ELSE out
    /\ IF ~Truthy(product_info)
       THEN /\ pc' = "done"
            /\ UNCHANGED << page_number, i, callVars, extracted >>
       ELSE IF i + 1 < Len(product_links)
       THEN /\ EnterExtract(page_number, i + 1)
            /\ UNCHANGED page_number
       ELSE /\ page_number' = NextPage(page_number)
            /\ pc' = "fetch"
            /\ LeaveExtract
            /\ UNCHANGED << i, extracted >>
    /\ UNCHANGED << args, query, num_pages, product_links, product_info, exc,
                    fetched, returned, served, exhausted >>

\* lines 151-154 and 146: the record is written if truthy; the product loop
\* goes to the next link, or the page loop to the next page
WriteAndAdvance ==
    /\ pc = "write"
    /\ out' = IF Truthy(product_info) THEN Append(out, Line(product_info[1])) ELSE out
    /\ IF i + 1 < Len(product_links)
       THEN /\ EnterExtract(page_number, i + 1)
            /\ UNCHANGED page_number
       ELSE /\ page_number' = NextPage(page_number)
            /\ pc' = "fetch"
            /\ LeaveExtract
            /\ UNCHANGED << i, extracted >>
    /\ UNCHANGED << args, query, num_pages, product_links, product_info, exc,
                    fetched, returned, served, exhausted >>

Next ==
    \/ \E links \in PageLinks : GetProductLinks(links)
    \/ \E e \in LinkErrors : GetProductLinksRaises(e)
    \/ \E e \in GetOutcomes : RequestTransient(e)
    \/ \E e \in GetOutcomes : RequestRaises(e)
    \/ \E body \in Bodies : RequestOk(body)
    \/ WriteAndAdvance

Spec == Init /\ [][Next]_vars

\* every call made returns, so a step that can be taken is taken: the
\* program is one thread with no wait other than its calls
FairSpec == Spec /\ WF_vars(Next)

TypeOK ==
    /\ pc \in {"fetch", "request", "write", "done", "raised"}
    /\ page_number \in 1..6
    /\ attempt \in 0..(max_retries - 1)
    /\ nreq \in 0..max_retries

(* ---------------- properties ----------------------------------------------*)
\* the exception classes the specification calls transient
TransientClasses == {"ProxyError", "HTTPError"}

\* a step inside one extract_product_info call that issues a GET
RequestStep ==
    /\ pc = "request"
    /\ Len(extracted') = Len(extracted)
    /\ nreq' = nreq + 1

\* C1: the driver never extracts a link of a page numbered above the
\* configured page count, and when the loop has ended the link sequence was
\* empty or the page number exceeds the configured page count.
C1_LoopHonoursPageCount ==
    /\ \A k \in 1..Len(extracted) : extracted[k][1] <= num_pages
    /\ pc = "done" => (product_links = << >> \/ page_number > num_pages)

\* C2: every get_product_links call of the driver uses the configured query.
C2_FetchUsesConfiguredQuery ==
    \A k \in 1..Len(fetched) : fetched[k].query = query

\* C3: one call issues at most 5 GETs; a GET after the first is issued only
\* when the previous one ended in a transient failure, never after a success
\* and never after the 5th.
C3_AtMostFiveRequests ==
    [][ /\ nreq' <= 5
        /\ nreq' > nreq =>
              /\ nreq' = nreq + 1
              /\ pc = "request"
              /\ nreq < 5
              /\ (nreq = 0 \/ lastOutcome \in TransientClasses) ]_vars

\* the 5th request of a call failed transiently and the call has returned
C3_Witness ==
    pc = "write" /\ nreq = 5 /\ lastOutcome = "HTTPError"

RECURSIVE SumSeq(_)
SumSeq(q) == IF q = << >> THEN 0 ELSE Head(q) + SumSeq(Tail(q))

\* C4: inside one call the k-th transient failure, k = 1..4, is followed by
\* one sleep of 3 * 2^(k-1); no other step of the call sleeps (not a success,
\* not the 5th failure), and the sleeps of a call sum to at most 45.
C4_BackoffSchedule ==
    [][ LET failedWithRetry == /\ RequestStep
                               /\ lastOutcome' \in TransientClasses
                               /\ nreq' <= 4
        IN /\ failedWithRetry => sleeps' = Append(sleeps, 3 * 2^(nreq' - 1))
           /\ (pc = "request" /\ ~failedWithRetry) => sleeps' = sleeps
           /\ SumSeq(sleeps') <= 45 ]_vars

\* five transient failures: four sleeps, none after the 5th
C4_Witness ==
    pc = "write" /\ nreq = 5 /\ lastOutcome = "ProxyError" /\ sleeps = << 3, 6, 12, 24 >>

\* C5: when the 5th attempt of a call fails transiently (the four before it
\* having failed), the call returns None and no exception leaves it.
C5_ExhaustedReturnsAbsent ==
    [][ (RequestStep /\ nreq' = 5 /\ lastOutcome' \in TransientClasses) =>
            /\ pc' = "write"
            /\ product_info' = None
            /\ exc' = None
            /\ returned' = returned ]_vars

C5_Witness ==
    /\ pc = "write" /\ attempt = 4 /\ nreq = 5 /\ lastOutcome \in TransientClasses
    /\ product_info = None /\ exc = None

\* the body carries a jsonLD array whose first element is a Product with
\* every field the record needs
WellFormedProduct(body) ==
    /\ body.script
    /\ body.parseable
    /\ Len(body.json) > 0
    /\ "@type" \in DOMAIN body.json[1]
    /\ body.json[1]["@type"] = "Product"
    /\ RequiredFieldsPresent(body.json[1])

\* C6: after j < 5 transient failures the call goes on to attempt j+1, and an
\* attempt that succeeds with a well-formed Product returns the record built
\* from that response, whatever failed before.
C6_SuccessAfterFailures ==
    [][ /\ (RequestStep /\ lastOutcome' \in TransientClasses /\ nreq' < 5) =>
               /\ pc' = "request"
               /\ attempt' = nreq'
        /\ (RequestStep /\ lastOutcome' = "OK" /\ WellFormedProduct(lastBody'[1])) =>
               /\ pc' = "write"
               /\ exc' = None
               /\ product_info' = Some(BuildProductInfo(lastBody'[1].json[1]))
               /\ returned' = Append(returned, product_info'[1]) ]_vars

\* four failures, then a success on the 5th attempt
C6_Witness ==
    /\ pc = "write" /\ nreq = 5 /\ sleeps = << 3, 6, 12, 24 >> /\ lastOutcome = "OK"
    /\ product_info = Some(BuildProductInfo(ProductA))

\* the response cannot be parsed into a typed first element, or it is a
\* Product lacking a field
StructuralFailure(body) ==
    \/ ~body.script
    \/ ~body.parseable
    \/ Len(body.json) = 0
    \/ "@type" \notin DOMAIN body.json[1]
    \/ (body.json[1]["@type"] = "Product" /\ ~RequiredFieldsPresent(body.json[1]))

NonProduct(body) ==
    /\ body.script
    /\ body.parseable
    /\ Len(body.json) > 0
    /\ "@type" \in DOMAIN body.json[1]
    /\ body.json[1]["@type"] # "Product"

\* C8: a successful response whose first element is not a Product makes the
\* call return None on that attempt (no exception, no sleep, no further
\* request), and the driver writes no line for that link.
C8_NonProductReturnsAbsent ==
    [][ /\ (RequestStep /\ lastOutcome' = "OK" /\ NonProduct(lastBody'[1])) =>
               /\ pc' = "write"
               /\ product_info' = None
               /\ exc' = None
               /\ sleeps' = sleeps
               /\ returned' = returned
        /\ (pc = "write" /\ lastOutcome = "OK" /\ NonProduct(lastBody[1])) =>
               /\ out' = out
               /\ nreq' \in {0, nreq} ]_vars

\* a non-Product first element, a Product behind it, after one failure
C8_Witness ==
    /\ pc = "write" /\ lastOutcome = "OK" /\ nreq = 2
    /\ lastBody = Some([script |-> TRUE, parseable |-> TRUE,
                        json |-> << Breadcrumb, ProductA >>])
    /\ product_info = None

\* C9: the record returned for a well-formed Product has exactly the six
\* keys, each equal to its source field of the first element.
C9_RecordMapping ==
    (pc = "write" /\ lastOutcome = "OK" /\ WellFormedProduct(lastBody[1])) =>
        /\ product_info # None
        /\ LET r == product_info[1]
               d == lastBody[1].json[1]
           IN /\ DOMAIN r = {"product_name", "brand_name", "aggregate_rating",
                             "review_count", "price", "price_currency"}
              /\ r["product_name"] = d["name"]
              /\ r["brand_name"] = d["brand"]["name"]
              /\ r["aggregate_rating"] = d["aggregateRating"]["ratingValue"]
              /\ r["review_count"] = d["aggregateRating"]["reviewCount"]
              /\ r["price"] = d["offers"]["price"]
              /\ r["price_currency"] = d["offers"]["priceCurrency"]

\* the Product with extra keys was returned as a record
C9_Witness ==
    /\ pc = "write" /\ lastOutcome = "OK"
    /\ lastBody = Some([script |-> TRUE, parseable |-> TRUE,
                        json |-> << ProductB, Breadcrumb >>])
    /\ product_info # None
    /\ product_info[1]["price"] = 900

\* the line of a record: its six members in the order the record was built,
\* then the newline
ExpectedLine(r) ==
    << << "product_name", r["product_name"] >>, << "brand_name", r["brand_name"] >>,
       << "aggregate_rating", r["aggregate_rating"] >>,
       << "review_count", r["review_count"] >>, << "price", r["price"] >>,
       << "price_currency", r["price_currency"] >>, "\n" >>

\* position a of a link comes before position b
Before(a, b) == a[1] < b[1] \/ (a[1] = b[1] /\ a[2] < b[2])

\* C10: the output lines are the records returned so far, one line each, in
\* call order (only the record returned last may still await its write, and
\* it is written before the next call starts); calls go by page, then by link
\* index; a call that returned None adds no line.
C10_OutputIsReturnedRecords ==
    /\ LET pending == IF pc = "write" /\ product_info # None THEN 1 ELSE 0
       IN Len(out) = Len(returned) - pending
    /\ \A k \in 1..Len(out) : out[k] = ExpectedLine(returned[k])
    /\ \A k \in 1..(Len(extracted) - 1) : Before(extracted[k], extracted[k + 1])

\* two different records written around a link that yielded none, and the run
\* cut short by an exception
C10_Witness ==
    /\ pc = "raised" /\ Len(extracted) = 4 /\ Len(out) = 2
    /\ out[1] = ExpectedLine(BuildProductInfo(ProductB))
    /\ out[2] = ExpectedLine(BuildProductInfo(ProductA))
    /\ extracted[2] = << 1, 1 >> /\ extracted[3] = << 2, 0 >>

\* C11: after a call that used up its 5 attempts and returned None the driver
\* goes on: to the next link of the page, or to the next page when it was the
\* last link; no exception, and a record returned by a later call is written.
C11_ExhaustedIsNotFatal ==
    [][ /\ (pc = "write" /\ nreq = 5 /\ lastOutcome \in TransientClasses) =>
               /\ exc' = None
               /\ out' = out
               /\ IF i + 1 < Len(product_links)
                  THEN /\ pc' = "request"
                       /\ page_number' = page_number
                       /\ extracted' = Append(extracted, << page_number, i + 1 >>)
                  ELSE /\ pc' = "fetch"
                       /\ page_number' = page_number + 1
        /\ (pc = "write" /\ exhausted > 0 /\ product_info # None) =>
               out' = Append(out, ExpectedLine(product_info[1])) ]_vars

\* the first link used up its attempts, the second link's record was written
C11_Witness ==
    /\ exhausted = 1 /\ Len(extracted) = 2 /\ extracted[2] = << 1, 1 >>
    /\ pc = "fetch" /\ product_info # None /\ Len(out) = 1

C13_EmptyPageEndsLoop ==
    [][ /\ (fetched' # fetched /\ pc' # "raised" /\ product_links' = << >>) =>
               /\ pc' = "done"
               /\ exc' = None
               /\ out' = out
               /\ extracted' = extracted
        /\ pc = "done" =>
               (pc' = "done" /\ fetched' = fetched /\ extracted' = extracted /\ out' = out) ]_vars

\* page 2 was empty after page 1 gave two lines
C13_Witness ==
    /\ pc = "done" /\ exc = None /\ product_links = << >> /\ page_number = 2
    /\ Len(fetched) = 2 /\ Len(out) = 2

\* C15: the k-th search page fetched is page k; the page number changes only
\* by +1, at the step that handles the last link of the current page; and when
\* a page is fetched every link of the page before it has been extracted.
C15_PagesInOrder ==
    [][ /\ \A k \in 1..Len(fetched') : fetched'[k].page = k
        /\ page_number' # page_number =>
               /\ page_number' = page_number + 1
               /\ pc = "write"
               /\ i + 1 = Len(product_links)
               /\ pc' = "fetch"
        /\ (fetched' # fetched /\ page_number > 1) =>
               \A idx \in 0..(Len(product_links) - 1) :
                   \E k \in 1..Len(extracted) : extracted[k] = << page_number - 1, idx >> ]_vars

\* page 3 is fetched after two pages of two links that gave one line in all
C15_Witness ==
    /\ Len(fetched) = 3 /\ fetched[3].page = 3 /\ page_number = 3
    /\ Len(extracted) = 5 /\ extracted[4] = << 2, 1 >> /\ Len(out) = 1

\* what is left to do, as a triple ordered lexicographically: page-loop
\* positions left, links left on the page, steps left in the call
Rank ==
    << IF pc = "fetch" THEN 2 * (7 - page_number)
       ELSE IF pc \in {"request", "write"} THEN 2 * (7 - page_number) - 1
       ELSE 0,
       IF pc \in {"request", "write"} THEN Len(product_links) - i ELSE 0,
       IF pc = "request" THEN 6 - attempt ELSE 0 >>

LexLess(a, b) ==
    \/ a[1] < b[1]
    \/ a[1] = b[1] /\ a[2] < b[2]
    \/ a[1] = b[1] /\ a[2] = b[2] /\ a[3] < b[3]

C17_RetryStateIsPerCall ==
    [][ /\ Len(extracted') = Len(extracted) + 1 =>
               /\ pc' = "request"
               /\ attempt' = 0
               /\ backoff_factor' = 3
               /\ nreq' = 0
               /\ sleeps' = << >>
        /\ sleeps' # << >> => sleeps'[1] = 3
        /\ (pc = "request" /\ pc' = "write" /\ lastOutcome' \in TransientClasses) =>
               nreq' = 5 ]_vars

\* a second call went through its full budget after the first one had
C17_Witness ==
    /\ exhausted = 2 /\ Len(extracted) = 2 /\ pc = "write"
    /\ nreq = 5 /\ sleeps = << 3, 6, 12, 24 >>

\* under FairSpec the run reaches its end (a consequence of C16)
EventuallyEnds == <>(pc \in {"done", "raised"})

====
